---- MODULE Spec2Model ----
(***************************************************************************)
(* Model of ModelProcessor (sagemaker_processors/models.py): the three     *)
(* passes of get_workunits (endpoints, models, groups), the correlation    *)
(* tables they fill and read, and the records they yield.                  *)
(***************************************************************************)
EXTENDS Integers, Sequences, FiniteSets, TLC

VARIABLES
    sagemaker,            \* responses of the client: [endpoints, models, groups]
    lineage,              \* LineageInfo: the four lookup maps
    model_image_to_jobs,  \* field of the processor (models.py:48)
    model_name_to_jobs,   \* field of the processor (models.py:53)
    model_uri_to_name,    \* field of the processor (models.py:58)
    model_image_to_name,  \* field of the processor (models.py:60)
    report,               \* the SagemakerSourceReport handed to the processor
    generators,           \* the generators get_workunits() returned, in call order
    clock,                \* the last value datetime.now() returned
    history               \* per generator: what the properties remember of its scan

vars == <<sagemaker, lineage, model_image_to_jobs, model_name_to_jobs,
          model_uri_to_name, model_image_to_name, report, generators, clock,
          history>>

\* ------------------------------------------------------------------ bounds
MaxScans == 2
MaxPageSize == 2
MaxClock == 2

\* ------------------------------------------------------------- strings
\* Every string of the model, in the order Python's str comparison gives.
StrOrder ==
    << "arn:endpoint/a", "arn:endpoint/b", "arn:endpoint/z",
       "arn:group/a", "arn:group/b", "arn:model/a", "arn:model/b",
       "ep-x", "ep-y", "group-a", "group-b", "model-x", "model-y",
       "path/1", "path/2", "urn:job:A", "urn:job:B", "urn:job:C" >>

Rank(s) == CHOOSE i \in 1..Len(StrOrder) : StrOrder[i] = s

StrLess(a, b) == Rank(a) < Rank(b)

\* Python's None for an absent string field.
NoneVal == "None"

Paths == {"path/1", "path/2"}
PathOpt == Paths \cup {NoneVal}

Range(s) == {s[i] : i \in 1..Len(s)}

Last(s) == s[Len(s)]

Front(s) == SubSeq(s, 1, Len(s) - 1)

\* dict.get(key, default) and dict[key] = value on a TLA+ function.
Get(d, k, default) == IF k \in DOMAIN d THEN d[k] ELSE default

Put(d, k, v) == [x \in DOMAIN d \cup {k} |-> IF x = k THEN v ELSE d[x]]

EmptyDict == [x \in {} |-> NoneVal]

\* ------------------------------------------------------------- sorting
\* sorted(listing, key=lambda x: x[field]): a stable sort.
RECURSIVE InsertByField(_, _, _)
InsertByField(sorted, x, field) ==
    IF sorted = <<>> THEN <<x>>
    ELSE IF StrLess(x[field], Last(sorted)[field])
         THEN Append(InsertByField(Front(sorted), x, field),
                     Last(sorted))
         ELSE Append(sorted, x)

RECURSIVE SortedByField(_, _)
SortedByField(listing, field) ==
    IF listing = <<>> THEN <<>>
    ELSE InsertByField(SortedByField(Front(listing), field),
                       Last(listing), field)

\* sorted(<a set or list of strings without duplicates>)
RECURSIVE SortedStrings(_)
SortedStrings(S) ==
    IF S = {} THEN <<>>
    ELSE LET m == CHOOSE x \in S : \A y \in S : ~StrLess(y, x)
         IN  <<m>> \o SortedStrings(S \ {m})

\* ------------------------------------------------------------- paging
\* The client returns a listing as pages; get_all_* concatenates them.
RECURSIVE SplitPages(_, _)
SplitPages(listing, size) ==
    IF Len(listing) <= size THEN <<listing>>
    ELSE <<SubSeq(listing, 1, size)>>
         \o SplitPages(SubSeq(listing, size + 1, Len(listing)), size)

RECURSIVE ConcatPages(_)
ConcatPages(pages) ==
    IF pages = <<>> THEN <<>> ELSE Head(pages) \o ConcatPages(Tail(pages))

\* Every order in which the client may return the entries of a set.
Orders(S) ==
    {s \in [1..Cardinality(S) -> S] : \A i, j \in DOMAIN s : i # j => s[i] # s[j]}

\* ------------------------------------------------------------- inputs
\* ENDPOINT_STATUS_MAP
ENDPOINT_STATUS_MAP ==
    [s \in {"OutOfService", "Creating", "Updating", "SystemUpdating", "RollingBack",
            "InService", "Deleting", "Failed", "Unknown"} |->
        CASE s = "OutOfService"   -> "OUT_OF_SERVICE"
          [] s = "Creating"       -> "CREATING"
          [] s = "Updating"       -> "UPDATING"
          [] s = "SystemUpdating" -> "UPDATING"
          [] s = "RollingBack"    -> "ROLLING_BACK"
          [] s = "InService"      -> "IN_SERVICE"
          [] s = "Deleting"       -> "DELETING"
          [] s = "Failed"         -> "FAILED"
          [] s = "Unknown"        -> "UNKNOWN"]

\* An optional field of a response is <<>> (absent) or <<value>>.
StatusOptions ==
    {<<>>} \cup {<<s>> : s \in DOMAIN ENDPOINT_STATUS_MAP \cup {"Paused"}}

\* describe_endpoint responses.  The names sort against the ARNs.
EndpointA(status, time) ==
    [EndpointName |-> "ep-y", EndpointArn |-> "arn:endpoint/a",
     EndpointStatus |-> status, CreationTime |-> time]

EndpointB(status) ==
    [EndpointName |-> "ep-x", EndpointArn |-> "arn:endpoint/b",
     EndpointStatus |-> status, CreationTime |-> <<200>>]

\* describe_model responses; Image and ModelDataUrl are those of PrimaryContainer,
\* Containers holds each secondary container's ModelDataUrl.
ModelA(image, uri, containers, time) ==
    [ModelName |-> "model-y", ModelArn |-> "arn:model/a", Image |-> image,
     ModelDataUrl |-> uri, Containers |-> containers, CreationTime |-> time]

ModelB(image, uri) ==
    [ModelName |-> "model-x", ModelArn |-> "arn:model/b", Image |-> image,
     ModelDataUrl |-> uri, Containers |-> <<>>, CreationTime |-> <<400>>]

\* describe_model_package_group responses.
GroupA(time) ==
    [ModelPackageGroupName |-> "group-b", ModelPackageGroupArn |-> "arn:group/a",
     CreationTime |-> time]

GroupB ==
    [ModelPackageGroupName |-> "group-a", ModelPackageGroupArn |-> "arn:group/b",
     CreationTime |-> <<600>>]

ModelJob(urn, direction) == [job_urn |-> urn, job_direction |-> direction]

JobsAB == {ModelJob("urn:job:A", "TRAINING"), ModelJob("urn:job:B", "DOWNSTREAM")}

\* LineageInfo: the endpoint maps are defaultdicts (total), the group maps
\* hold an entry for group A only, and only when something is linked to it.
Lineage(imageEps, uriEps, groupUris, groupImages) ==
    [model_image_endpoints |-> [p \in Paths |-> IF p = "path/1" THEN imageEps ELSE {}],
     model_uri_endpoints   |-> [p \in Paths |-> IF p = "path/2" THEN uriEps ELSE {}],
     group_model_uris      |-> [g \in IF groupUris = {} THEN {} ELSE {"arn:group/a"}
                                   |-> groupUris],
     group_model_images    |-> [g \in IF groupImages = {} THEN {} ELSE {"arn:group/a"}
                                   |-> groupImages]]

World(eps, mods, grps, lin, imageJobs, nameJobs) ==
    [sagemaker |-> [endpoints |-> eps, models |-> mods, groups |-> grps],
     lineage |-> lin, model_image_to_jobs |-> imageJobs,
     model_name_to_jobs |-> nameJobs]

DefaultEndpoints == {EndpointA(<<"InService">>, <<100>>), EndpointB(<<"InService">>)}
DefaultModels == {ModelA("path/1", "path/2", <<>>, <<300>>), ModelB("path/2", "path/1")}
DefaultGroups == {GroupA(<<500>>), GroupB}
DefaultLineage ==
    Lineage({"arn:endpoint/a", "arn:endpoint/z"}, {"arn:endpoint/b"}, {"path/2"}, {"path/1"})
DefaultImageJobs == [p \in {"path/2"} |-> JobsAB]
DefaultNameJobs == [n \in {} |-> {}]

\* Which entities the client lists.
ListingWorlds ==
    {World(eps, mods, grps, DefaultLineage, DefaultImageJobs, DefaultNameJobs) :
        eps \in SUBSET DefaultEndpoints, mods \in SUBSET DefaultModels,
        grps \in SUBSET DefaultGroups}

\* The status strings of the endpoints.
StatusWorlds ==
    {World(eps, DefaultModels, DefaultGroups, DefaultLineage,
           DefaultImageJobs, DefaultNameJobs) :
        eps \in {{EndpointA(st, <<100>>)} \cup rest :
                    st \in StatusOptions,
                    rest \in {{}, {EndpointB(<<"InService">>)}, {EndpointB(<<"Paused">>)}}}}

\* The endpoints the Lineage Index links to the models.
EndpointWorlds ==
    {World({EndpointA(<<"Paused">>, <<100>>), EndpointB(<<"InService">>)},
           DefaultModels, DefaultGroups, Lineage(ie, ue, {"path/2"}, {"path/1"}),
           DefaultImageJobs, DefaultNameJobs) :
        ie \in {{}, {"arn:endpoint/a"}, {"arn:endpoint/b", "arn:endpoint/z"},
                {"arn:endpoint/a", "arn:endpoint/b"}},
        ue \in {{}, {"arn:endpoint/a"}, {"arn:endpoint/z"}}}

\* Primary images and URIs of the two models, and what is linked to group A.
GroupWorld(ia, ua, ib, ub, gu, gi) ==
    World(DefaultEndpoints,
          {ModelA(ia, ua, <<>>, <<300>>), ModelB(ib, ub)}, DefaultGroups,
          Lineage({"arn:endpoint/a"}, {"arn:endpoint/b"}, gu, gi),
          DefaultImageJobs, DefaultNameJobs)

GroupWorlds ==
    {GroupWorld(ia, ua, ib, ub, gu, gi) :
        ia \in {"path/1", NoneVal}, ua \in {"path/1", NoneVal},
        ib \in PathOpt, ub \in PathOpt,
        gu \in {{}, {"path/1"}, Paths}, gi \in {{}, {"path/2"}}}

\* A world in which group A is linked to an image that is some model's URI
\* and no model's image.
KeyErrorWorld == GroupWorld("path/1", NoneVal, "path/1", "path/2", {"path/1"}, {"path/2"})

\* Containers of model A and the jobs filed under paths and names.
JobWorlds ==
    {World(DefaultEndpoints, {ModelA(ia, ua, cs, <<300>>), ModelB("path/2", NoneVal)},
           DefaultGroups, DefaultLineage,
           [p \in Paths |-> IF p = "path/1" THEN j1 ELSE j2],
           [n \in {"model-y"} |-> jn]) :
        ia \in {"path/1", NoneVal}, ua \in {"path/2", NoneVal},
        cs \in {<<>>, <<"path/2">>, <<NoneVal, "path/1">>},
        j1 \in {{}, JobsAB},
        j2 \in {{}, {ModelJob("urn:job:A", "TRAINING")}},
        jn \in {{}, {ModelJob("urn:job:B", "TRAINING")}}}

\* Responses with and without a CreationTime.
TimeWorlds ==
    {World({EndpointA(<<"InService">>, te), EndpointB(<<"InService">>)},
           {ModelA("path/1", "path/2", <<>>, tm), ModelB("path/2", "path/1")},
           {GroupA(tg), GroupB}, DefaultLineage, DefaultImageJobs, DefaultNameJobs) :
        te \in {<<>>, <<100>>}, tm \in {<<>>, <<300>>}, tg \in {<<>>, <<500>>}}

Worlds ==
    ListingWorlds \cup StatusWorlds \cup EndpointWorlds \cup GroupWorlds
        \cup JobWorlds \cup TimeWorlds

EmptyReport ==
    [warnings |-> <<>>, endpoints_scanned |-> 0, models_scanned |-> 0,
     groups_scanned |-> 0, workunits_produced |-> 0]

\* The frame of a generator get_workunits() has just returned: no statement
\* of the body has run, its locals are not bound yet.
NewGenerator ==
    [pc |-> "start", endpoints |-> <<>>, models |-> <<>>, groups |-> <<>>,
     idx |-> 1, endpoint_arn_to_name |-> EmptyDict, out |-> <<>>, calls |-> <<>>]

NoHistory == [interfered |-> FALSE, after_models |-> <<>>, at_end |-> <<>>]

\* The processor as constructed: the dataclass defaults of its tables.
InitIn(worlds) ==
    \E w \in worlds :
        /\ sagemaker = w.sagemaker
        /\ lineage = w.lineage
        /\ model_image_to_jobs = w.model_image_to_jobs
        /\ model_name_to_jobs = w.model_name_to_jobs
        /\ model_uri_to_name = EmptyDict
        /\ model_image_to_name = EmptyDict
        /\ report = EmptyReport
        /\ generators = <<>>
        /\ clock = 0
        /\ history = <<>>

Init == InitIn(Worlds)

\* The same, on the worlds that vary the endpoints, and on those that vary the listings.
InitEndpoints == InitIn(StatusWorlds \cup EndpointWorlds \cup {KeyErrorWorld})

InitListings == InitIn(ListingWorlds \cup {KeyErrorWorld})

\* ------------------------------------------------------------- the client
\* What the list_* calls return: the summaries of the listed entities.
EndpointSummaries ==
    {[EndpointName |-> e.EndpointName, EndpointArn |-> e.EndpointArn] :
        e \in sagemaker.endpoints}

ModelSummaries ==
    {[ModelName |-> m.ModelName, ModelArn |-> m.ModelArn] : m \in sagemaker.models}

GroupSummaries ==
    {[ModelPackageGroupName |-> g.ModelPackageGroupName] : g \in sagemaker.groups}

\* get_all_endpoints, get_all_models, get_all_groups: the pages, concatenated.
get_all(pages) == ConcatPages(pages)

get_endpoint_details(endpoint_name) ==
    CHOOSE e \in sagemaker.endpoints : e.EndpointName = endpoint_name

get_model_details(model_name) ==
    CHOOSE m \in sagemaker.models : m.ModelName = model_name

get_group_details(group_name) ==
    CHOOSE g \in sagemaker.groups : g.ModelPackageGroupName = group_name

\* ------------------------------------------------------------- records
\* builder.make_ml_model_deployment_urn / make_ml_model_urn / make_ml_model_group_urn
\* ("sagemaker", name, env): the URN embeds the name between a fixed prefix and
\* a fixed suffix.
make_urn(entity, name) == [entity |-> entity, name |-> name]

\* int(details.get("CreationTime", datetime.now()).timestamp() * 1000)
\* `now` is what this evaluation of datetime.now() returned.
CreatedAt(details, now) ==
    (IF details.CreationTime = <<>> THEN now ELSE details.CreationTime[1]) * 1000

\* The values datetime.now() may return after it returned `clock`: time does
\* not run backwards.
Now == clock..MaxClock

\* The values of datetime.now() that can reach the record built from
\* `details`: the default of details.get("CreationTime", datetime.now()) is
\* evaluated on every call, and dropped when the response has a CreationTime.
Stamps(details) == IF details.CreationTime = <<>> THEN Now ELSE {clock}

\* Variant: the fallback to UNKNOWN without the report_warning call.
get_endpoint_status_Silent(endpoint_name, endpoint_arn, sagemaker_status) ==
    [status |-> Get(ENDPOINT_STATUS_MAP, sagemaker_status, "UNKNOWN"), warnings |-> <<>>]

\* get_endpoint_status: the canonical status and the warnings it reports.
get_endpoint_status(endpoint_name, endpoint_arn, sagemaker_status) ==
    IF sagemaker_status \in DOMAIN ENDPOINT_STATUS_MAP
    THEN [status |-> ENDPOINT_STATUS_MAP[sagemaker_status], warnings |-> <<>>]
    ELSE [status |-> "UNKNOWN",
          warnings |-> << [key |-> endpoint_arn,
                           reason |-> <<"Unknown status for ", endpoint_name, " (",
                                        endpoint_arn, "): ", sagemaker_status>>] >>]

\* endpoint_details.get("EndpointStatus", "Unknown")
EndpointStatusOf(endpoint_details) ==
    IF endpoint_details.EndpointStatus = <<>> THEN "Unknown"
    ELSE endpoint_details.EndpointStatus[1]

\* The call of get_endpoint_status in get_endpoint_wu: the ARN is passed as
\* the first argument and the name as the second.
EndpointStatusResult(endpoint_details) ==
    get_endpoint_status(endpoint_details.EndpointArn, endpoint_details.EndpointName,
                        EndpointStatusOf(endpoint_details))

\* get_endpoint_wu
get_endpoint_wu(endpoint_details, now) ==
    [kind |-> "endpoint",
     id |-> endpoint_details.EndpointName,
     urn |-> make_urn("mlModelDeployment", endpoint_details.EndpointName),
     createdAt |-> CreatedAt(endpoint_details, now),
     status |-> EndpointStatusResult(endpoint_details).status,
     customProperties |-> [EndpointArn |-> endpoint_details.EndpointArn,
                           EndpointStatus |-> endpoint_details.EndpointStatus]]

\* model_endpoints of get_model_wu: the Lineage Index lookups of the primary container.
ModelEndpoints(model_details) ==
    (IF model_details.Image # NoneVal
     THEN lineage.model_image_endpoints[model_details.Image] ELSE {})
    \cup
    (IF model_details.ModelDataUrl # NoneVal
     THEN lineage.model_uri_endpoints[model_details.ModelDataUrl] ELSE {})

\* Variant: the lookups sorted without the filter on endpoint_arn_to_name.
ModelEndpointsSorted_NoFilter(model_details, arn_to_name) ==
    SortedStrings(ModelEndpoints(model_details))

\* model_endpoints_sorted of get_model_wu
ModelEndpointsSorted(model_details, arn_to_name) ==
    SortedStrings({x \in ModelEndpoints(model_details) : x \in DOMAIN arn_to_name})

\* deployments of get_model_wu: one URN for each element of model_endpoints_sorted.
Deployments(model_details, arn_to_name) ==
    LET sorted == ModelEndpointsSorted(model_details, arn_to_name)
    IN  [i \in 1..Len(sorted) |-> make_urn("mlModelDeployment", sorted[i])]

\* model_data_urls of get_model_wu
ModelDataUrls(model_details) ==
    SelectSeq(model_details.Containers, LAMBDA u : u # NoneVal)
    \o (IF model_details.ModelDataUrl # NoneVal
        THEN <<model_details.ModelDataUrl>> ELSE <<>>)

\* The jobs get_model_wu matches to a model: by each data URL, and by name.
MatchedJobs(model_details) ==
    UNION {Get(model_image_to_jobs, u, {}) : u \in Range(ModelDataUrls(model_details))}
    \cup Get(model_name_to_jobs, model_details.ModelName, {})

JobUrns(model_details, direction) ==
    {job.job_urn : job \in {j \in MatchedJobs(model_details) :
                                j.job_direction = direction}}

\* get_model_wu (the record; its writes to the tables are in ProcessModel)
get_model_wu(model_details, arn_to_name, now) ==
    [kind |-> "model",
     id |-> model_details.ModelName,
     urn |-> make_urn("mlModel", model_details.ModelName),
     date |-> CreatedAt(model_details, now),
     deployments |-> Deployments(model_details, arn_to_name),
     trainingJobs |-> SortedStrings(JobUrns(model_details, "TRAINING")),
     downstreamJobs |-> SortedStrings(JobUrns(model_details, "DOWNSTREAM"))]

\* The writes of get_model_wu to model_image_to_name and model_uri_to_name.
ImageTableAfter(table, model_details) ==
    IF model_details.Image # NoneVal
    THEN Put(table, model_details.Image, model_details.ModelName) ELSE table

UriTableAfter(table, model_details) ==
    IF model_details.ModelDataUrl # NoneVal
    THEN Put(table, model_details.ModelDataUrl, model_details.ModelName) ELSE table

\* get_group_wu: the images of the group that pass the filter of line 326.
GroupImagesKept(group_arn) ==
    IF group_arn \in DOMAIN lineage.group_model_images
    THEN {x \in lineage.group_model_images[group_arn] : x \in DOMAIN model_uri_to_name}
    ELSE {}

GroupUrisKept(group_arn) ==
    IF group_arn \in DOMAIN lineage.group_model_uris
    THEN {x \in lineage.group_model_uris[group_arn] : x \in DOMAIN model_uri_to_name}
    ELSE {}

\* self.model_image_to_name[x] raises KeyError for a kept image without an entry.
GroupRaises(group_details) ==
    \E x \in GroupImagesKept(group_details.ModelPackageGroupArn) :
        x \notin DOMAIN model_image_to_name

\* group_model_names of get_group_wu
GroupModelNames(group_details) ==
    {model_uri_to_name[x] : x \in GroupUrisKept(group_details.ModelPackageGroupArn)}
    \cup
    {model_image_to_name[x] : x \in GroupImagesKept(group_details.ModelPackageGroupArn)}

\* sorted([make_ml_model_urn(name) for name in names]): the URNs share prefix
\* and suffix, so they sort as their names do.
SortedModelUrns(names) ==
    LET sorted == SortedStrings(names)
    IN  [i \in 1..Len(sorted) |-> make_urn("mlModel", sorted[i])]

\* get_group_wu
get_group_wu(group_details, now) ==
    [kind |-> "group",
     id |-> group_details.ModelPackageGroupName,
     urn |-> make_urn("mlModelGroup", group_details.ModelPackageGroupName),
     createdAt |-> CreatedAt(group_details, now),
     customProperties |-> [ModelPackageGroupArn |-> group_details.ModelPackageGroupArn],
     models |-> SortedModelUrns(GroupModelNames(group_details))]

\* ------------------------------------------------------------- get_workunits
\* The listings as sorted by get_workunits.
SortedEndpoints(listing) == SortedByField(listing, "EndpointArn")

SortedModels(listing) == SortedByField(listing, "ModelArn")

SortedGroups(listing) == SortedByField(listing, "ModelPackageGroupName")

inputs == <<sagemaker, lineage, model_image_to_jobs, model_name_to_jobs>>

tables == <<model_uri_to_name, model_image_to_name>>

\* The consumer calls get_workunits(): a generator is created, nothing of the
\* body runs yet.  Nothing in the code looks at the generators created
\* before: they may be suspended in the middle of their scan, exhausted, or
\* abandoned (a generator the consumer closes or drops is one that is never
\* pulled again).
GetWorkunits ==
    /\ Len(generators) < MaxScans
    /\ generators' = Append(generators, NewGenerator)
    /\ history' = Append(history, NoHistory)
    /\ UNCHANGED <<inputs, tables, report, clock>>

\* endpoints = sorted(self.get_all_endpoints(), ...); endpoint_arn_to_name = {}
\* The statement runs when the generator is resumed for the first time.
ListEndpoints(G) ==
    IF G.pc = "start"
    THEN {[G EXCEPT !.pc = "endpoints",
                    !.endpoints = SortedEndpoints(get_all(SplitPages(order, size))),
                    !.endpoint_arn_to_name = EmptyDict,
                    !.idx = 1,
                    !.calls = Append(@, <<"list_endpoints">>)] :
             order \in Orders(EndpointSummaries), size \in 1..MaxPageSize}
    ELSE {G}

\* Variant: the model listing fetched before the endpoint loop is over.
ListModels_Early(G) ==
    IF G.pc = "endpoints"
    THEN {[G EXCEPT !.pc = "models",
                    !.models = SortedModels(get_all(SplitPages(order, size))),
                    !.idx = 1,
                    !.calls = Append(@, <<"list_models">>)] :
             order \in Orders(ModelSummaries), size \in 1..MaxPageSize}
    ELSE {G}

\* The endpoint loop is over: models = sorted(self.get_all_models(), ...)
ListModels(G) ==
    IF G.pc = "endpoints" /\ G.idx > Len(G.endpoints)
    THEN {[G EXCEPT !.pc = "models",
                    !.models = SortedModels(get_all(SplitPages(order, size))),
                    !.idx = 1,
                    !.calls = Append(@, <<"list_models">>)] :
             order \in Orders(ModelSummaries), size \in 1..MaxPageSize}
    ELSE {G}

\* The model loop is over: groups = sorted(self.get_all_groups(), ...)
ListGroups(G) ==
    IF G.pc = "models" /\ G.idx > Len(G.models)
    THEN {[G EXCEPT !.pc = "groups",
                    !.groups = SortedGroups(get_all(SplitPages(order, size))),
                    !.idx = 1,
                    !.calls = Append(@, <<"list_groups">>)] :
             order \in Orders(GroupSummaries), size \in 1..MaxPageSize}
    ELSE {G}

\* A resumed generator runs the statements between its last yield and the
\* next loop iteration: the listing of each pass whose turn has come.
Resume(G) ==
    UNION {UNION {ListGroups(G2) : G2 \in ListModels(G1)} : G1 \in ListEndpoints(G)}

\* The generator is between its first statement and its return.
MidScan(G) == G.pc \in {"endpoints", "models", "groups"}

\* The two shared tables of the processor, as a record.
TablesOf(uri_table, image_table) == [uri |-> uri_table, image |-> image_table]

\* next(generator), answered by an iteration of the endpoint loop.
PullEndpoint(g) ==
    /\ \E G \in Resume(generators[g]) :
          /\ G.pc = "endpoints"
          /\ G.idx <= Len(G.endpoints)
          /\ LET endpoint == G.endpoints[G.idx]
                 endpoint_details == get_endpoint_details(endpoint.EndpointName)
             IN  \E now \in Stamps(endpoint_details) :
                 LET wu == get_endpoint_wu(endpoint_details, now)
                 IN
                 /\ clock' = now
                 /\ report' =
                        [report EXCEPT
                            !.endpoints_scanned = @ + 1,
                            !.warnings = @ \o EndpointStatusResult(endpoint_details).warnings,
                            !.workunits_produced = @ + 1]
                 /\ generators' =
                        [generators EXCEPT ![g] =
                            [G EXCEPT
                                !.endpoint_arn_to_name =
                                    Put(@, endpoint.EndpointArn, endpoint_details.EndpointName),
                                !.out = Append(@, wu),
                                !.calls = @ \o << <<"describe_endpoint", endpoint.EndpointName>>,
                                                  <<"yield", wu.id>> >>,
                                !.idx = @ + 1]]
    /\ UNCHANGED <<inputs, tables, history>>

\* next(generator), answered by an iteration of the model loop.
PullModel(g) ==
    /\ \E G \in Resume(generators[g]) :
          /\ G.pc = "models"
          /\ G.idx <= Len(G.models)
          /\ LET model_details == get_model_details(G.models[G.idx].ModelName)
             IN  \E now \in Stamps(model_details) :
             LET wu == get_model_wu(model_details, G.endpoint_arn_to_name, now)
                 image_table == ImageTableAfter(model_image_to_name, model_details)
                 uri_table == UriTableAfter(model_uri_to_name, model_details)
             IN  /\ clock' = now
                 /\ model_image_to_name' = image_table
                 /\ model_uri_to_name' = uri_table
                 /\ report' = [report EXCEPT !.models_scanned = @ + 1,
                                             !.workunits_produced = @ + 1]
                 /\ generators' =
                        [generators EXCEPT ![g] =
                            [G EXCEPT
                                !.out = Append(@, wu),
                                !.calls = @ \o << <<"describe_model", model_details.ModelName>>,
                                                  <<"yield", wu.id>> >>,
                                !.idx = @ + 1]]
                 /\ history' =
                        [h \in DOMAIN history |->
                            IF h = g
                            THEN [history[h] EXCEPT
                                     !.after_models =
                                         IF G.idx = Len(G.models)
                                         THEN <<TablesOf(uri_table, image_table)>> ELSE @]
                            ELSE [history[h] EXCEPT
                                     !.interfered = @ \/ MidScan(generators[h])]]
    /\ UNCHANGED inputs

\* next(generator), answered by an iteration of the group loop.
PullGroup(g) ==
    /\ \E G \in Resume(generators[g]) :
          /\ G.pc = "groups"
          /\ G.idx <= Len(G.groups)
          /\ LET group_details == get_group_details(G.groups[G.idx].ModelPackageGroupName)
             IN  \E now \in Stamps(group_details) :
             LET wu == get_group_wu(group_details, now)
             IN  /\ ~GroupRaises(group_details)
                 /\ clock' = now
                 /\ report' = [report EXCEPT !.groups_scanned = @ + 1,
                                             !.workunits_produced = @ + 1]
                 /\ generators' =
                        [generators EXCEPT ![g] =
                            [G EXCEPT
                                !.out = Append(@, wu),
                                !.calls = @ \o
                                    << <<"describe_group", group_details.ModelPackageGroupName>>,
                                       <<"yield", wu.id>> >>,
                                !.idx = @ + 1]]
    /\ UNCHANGED <<inputs, tables, history>>

\* next(generator), in which get_group_wu raises KeyError: the exception
\* leaves the generator, which yields nothing more.
PullGroupRaises(g) ==
    /\ \E G \in Resume(generators[g]) :
          /\ G.pc = "groups"
          /\ G.idx <= Len(G.groups)
          /\ LET group_details == get_group_details(G.groups[G.idx].ModelPackageGroupName)
             IN  /\ GroupRaises(group_details)
                 /\ report' = [report EXCEPT !.groups_scanned = @ + 1]
                 /\ generators' =
                        [generators EXCEPT ![g] =
                            [G EXCEPT
                                !.pc = "failed",
                                !.calls = @ \o
                                    << <<"describe_group", group_details.ModelPackageGroupName>>,
                                       <<"raise", "KeyError">> >>]]
    /\ history' = [history EXCEPT
                      ![g].at_end = <<TablesOf(model_uri_to_name, model_image_to_name)>>]
    /\ UNCHANGED <<inputs, tables, clock>>

\* next(generator), when the group loop is over: the generator returns.
PullReturn(g) ==
    /\ \E G \in Resume(generators[g]) :
          /\ G.pc = "groups"
          /\ G.idx > Len(G.groups)
          /\ generators' = [generators EXCEPT ![g] = [G EXCEPT !.pc = "done"]]
    /\ history' = [history EXCEPT
                      ![g].at_end = <<TablesOf(model_uri_to_name, model_image_to_name)>>]
    /\ UNCHANGED <<inputs, tables, report, clock>>

\* The consumer runs on one thread: one generator runs at a time, from the
\* pull to its next yield; it chooses freely which generator to pull.
Next ==
    \/ GetWorkunits
    \/ \E g \in DOMAIN generators : PullEndpoint(g)
    \/ \E g \in DOMAIN generators : PullModel(g)
    \/ \E g \in DOMAIN generators : PullGroup(g)
    \/ \E g \in DOMAIN generators : PullGroupRaises(g)
    \/ \E g \in DOMAIN generators : PullReturn(g)

Spec == Init /\ [][Next]_vars

SpecEndpoints == InitEndpoints /\ [][Next]_vars

SpecListings == InitListings /\ [][Next]_vars

\* ------------------------------------------------------------- properties
Scans == DOMAIN generators

\* The records of one kind yielded so far by scan g.
Records(g, kind) == {k \in 1..Len(generators[g].out) : generators[g].out[k].kind = kind}

Rec(g, k) == generators[g].out[k]

Finished(g) == generators[g].pc \in {"done", "failed"}

ModelPassOver(g) == generators[g].pc \in {"groups", "done", "failed"}

EndpointPassOver(g) == generators[g].pc = "models" \/ ModelPassOver(g)

ListedEndpointArns == {e.EndpointArn : e \in sagemaker.endpoints}

\* C1: a group linked to exactly one URI u1 and one image i2, where u1 is the
\* primary URI of model m1 alone, i2 the primary image of another model m2
\* alone, and i2 is no model's URI, gets the member list sorted [m1, m2].
C1_GroupMembershipUnion ==
    \A g \in Scans : \A k \in Records(g, "group") :
        LET arn == get_group_details(Rec(g, k).id).ModelPackageGroupArn
        IN  \A m1, m2 \in sagemaker.models, u1, i2 \in Paths :
                ( /\ m1 # m2
                  /\ arn \in DOMAIN lineage.group_model_uris
                  /\ lineage.group_model_uris[arn] = {u1}
                  /\ arn \in DOMAIN lineage.group_model_images
                  /\ lineage.group_model_images[arn] = {i2}
                  /\ \A m \in sagemaker.models :
                        /\ m.ModelDataUrl = u1 <=> m = m1
                        /\ m.Image = i2 <=> m = m2
                        /\ m.ModelDataUrl # i2 )
                => Rec(g, k).models = SortedModelUrns({m1.ModelName, m2.ModelName})

\* C2: the deployment list of every model record names each listed endpoint
\* the Lineage Index links to the model by its EndpointName, in the
\* lexicographic order of the names.
C2_DeploymentsByName ==
    \A g \in Scans : \A k \in Records(g, "model") :
        LET d == get_model_details(Rec(g, k).id)
            arn_to_name == generators[g].endpoint_arn_to_name
            arns == {a \in ModelEndpoints(d) : a \in DOMAIN arn_to_name}
            names == SortedStrings({arn_to_name[a] : a \in arns})
        IN  Rec(g, k).deployments =
                [i \in 1..Len(names) |-> make_urn("mlModelDeployment", names[i])]

\* C3: when the image-keyed job mapping holds {A: TRAINING, B: DOWNSTREAM}
\* under the primary image of a model and no other key contributes jobs, the
\* model record has training jobs [A] and downstream jobs [B].
C3_JobsByImagePath ==
    \A g \in Scans : \A k \in Records(g, "model") :
        LET d == get_model_details(Rec(g, k).id)
        IN  ( /\ d.Image # NoneVal
              /\ Get(model_image_to_jobs, d.Image, {}) = JobsAB
              /\ \A p \in DOMAIN model_image_to_jobs \ {d.Image} :
                    model_image_to_jobs[p] = {}
              /\ Get(model_name_to_jobs, d.ModelName, {}) = {} )
            => /\ Rec(g, k).trainingJobs = <<"urn:job:A">>
               /\ Rec(g, k).downstreamJobs = <<"urn:job:B">>

\* The endpoints whose status string ENDPOINT_STATUS_MAP does not map.
Unmapped(e) == EndpointStatusOf(e) \notin DOMAIN ENDPOINT_STATUS_MAP

\* The endpoint records of all scans that are about endpoint e.
RecordsOf(e) ==
    UNION {{<<g, k>> : k \in {j \in Records(g, "endpoint") : Rec(g, j).id = e.EndpointName}} :
              g \in Scans}

UnmappedRecords ==
    UNION {RecordsOf(e) : e \in {x \in sagemaker.endpoints : Unmapped(x)}}

References(w, s) == s = w.key \/ s \in Range(w.reason)

\* C4: a model whose Lineage Index lookups hold an endpoint ARN that was not
\* listed still gets its record, with no entry for that ARN and an entry for
\* every looked-up ARN that was listed; the model pass raises no error and
\* records no warning: the report holds the warnings of the endpoint records
\* and no other.
C4_UnlistedEndpointDropped ==
    /\ \A g \in Scans : \A k \in Records(g, "model") :
          \A a \in ModelEndpoints(get_model_details(Rec(g, k).id)) :
              (a \in ListedEndpointArns)
                  <=> (\E i \in DOMAIN Rec(g, k).deployments :
                          Rec(g, k).deployments[i].name = a)
    /\ \A g \in Scans :
          ModelPassOver(g) =>
              Cardinality(Records(g, "model")) = Cardinality(sagemaker.models)
    /\ Len(report.warnings) = Cardinality(UnmappedRecords)

C4_Witness ==
    \E g \in Scans : \E k \in Records(g, "model") :
        /\ "arn:endpoint/z" \in ModelEndpoints(get_model_details(Rec(g, k).id))
        /\ Len(Rec(g, k).deployments) = 1
        /\ ModelPassOver(g)
        /\ Len(report.warnings) > 0

\* C5: a lookup miss during group resolution never raises: every group of the
\* listing gets its record and the scan ends normally.
C5_GroupLookupMissRecoverable ==
    \A g \in Scans :
        /\ generators[g].pc # "failed"
        /\ generators[g].pc = "done" =>
              Cardinality(Records(g, "group")) = Cardinality(sagemaker.groups)

\* C6: every endpoint record carries the mapped status of its status string,
\* or UNKNOWN when the string is unmapped; each record of an unmapped string
\* comes with exactly one warning, which references the ARN and the name of
\* the endpoint, a mapped one with none; and the pass goes on to the end of
\* the listing.
C6_StatusFallback ==
    /\ \A e \in sagemaker.endpoints :
          LET mine == {i \in DOMAIN report.warnings :
                          /\ References(report.warnings[i], e.EndpointArn)
                          /\ References(report.warnings[i], e.EndpointName)}
          IN  /\ Cardinality(mine) = IF Unmapped(e) THEN Cardinality(RecordsOf(e)) ELSE 0
              /\ \A r \in RecordsOf(e) :
                    Rec(r[1], r[2]).status =
                        IF Unmapped(e) THEN "UNKNOWN"
                        ELSE ENDPOINT_STATUS_MAP[EndpointStatusOf(e)]
    /\ Len(report.warnings) = Cardinality(UnmappedRecords)
    /\ \A g \in Scans :
          EndpointPassOver(g) =>
              Cardinality(Records(g, "endpoint")) = Cardinality(sagemaker.endpoints)

C6_Witness ==
    /\ Len(generators) = 2
    /\ Len(report.warnings) = 2
    /\ \A g \in Scans :
          /\ EndpointPassOver(g)
          /\ \E k \in Records(g, "endpoint") :
                /\ Rec(g, k).customProperties.EndpointStatus = <<"Paused">>
                /\ Rec(g, k).status = "UNKNOWN"
          /\ \E k \in Records(g, "endpoint") : Rec(g, k).status = "IN_SERVICE"

\* Every response of the client carries a CreationTime.
AllTimesPresent ==
    \A e \in sagemaker.endpoints \cup sagemaker.models \cup sagemaker.groups :
        e.CreationTime # <<>>

\* C7: with every creation time present, two finished scans, which differ
\* only in the order and the paging of the listings, yield the same records,
\* in the same order and with the same lists, and end alike, with the same
\* side tables.
C7_Determinism ==
    \A g, h \in Scans :
        (Finished(g) /\ Finished(h) /\ AllTimesPresent)
            => /\ generators[g].out = generators[h].out
               /\ generators[g].pc = generators[h].pc
               /\ history[g].at_end = history[h].at_end

\* A scan during which no other generator of the processor ran its model loop.
Undisturbed(g) == ~history[g].interfered

\* What remains of it on the shared tables: the finished scans that ran
\* undisturbed agree, on a fresh processor and on a reused one.
UndisturbedScansAgree ==
    \A g, h \in Scans :
        (Finished(g) /\ Finished(h) /\ Undisturbed(g) /\ Undisturbed(h) /\ AllTimesPresent)
            => /\ generators[g].out = generators[h].out
               /\ generators[g].pc = generators[h].pc
               /\ history[g].at_end = history[h].at_end

\* The number of yields among the first n entries of a call log.
YieldsBefore(calls, n) == Cardinality({i \in 1..(n - 1) : calls[i][1] = "yield"})

\* C8: in every scan, however the consumer interleaves its pulls, the model
\* listing is fetched only after every endpoint record was yielded, and the
\* group listing only after every model record was; no model is described
\* before the model listing, no group before the group listing; so the ARN
\* index is complete when the model pass starts and the side tables have an
\* entry for every listed model when the group pass starts.
C8_PassOrdering ==
    \A g \in Scans :
        LET G == generators[g]
            calls == G.calls
        IN  /\ \A n \in DOMAIN calls :
                  /\ calls[n][1] = "list_models" =>
                        /\ YieldsBefore(calls, n) = Cardinality(sagemaker.endpoints)
                        /\ \A i \in 1..(n - 1) :
                              calls[i][1] \in {"list_endpoints", "describe_endpoint", "yield"}
                  /\ calls[n][1] = "list_groups" =>
                        /\ YieldsBefore(calls, n) =
                              Cardinality(sagemaker.endpoints) + Cardinality(sagemaker.models)
                        /\ \A i \in 1..(n - 1) : calls[i][1] # "describe_group"
                  /\ calls[n][1] = "describe_model" =>
                        \E i \in 1..(n - 1) : calls[i][1] = "list_models"
                  /\ calls[n][1] = "describe_group" =>
                        \E i \in 1..(n - 1) : calls[i][1] = "list_groups"
            /\ \A k \in Records(g, "model"), j \in Records(g, "endpoint") : j < k
            /\ \A k \in Records(g, "group"), j \in Records(g, "model") : j < k
            /\ G.pc = "models" => ListedEndpointArns \subseteq DOMAIN G.endpoint_arn_to_name
            /\ G.pc = "groups" =>
                  \A m \in sagemaker.models :
                      /\ m.Image # NoneVal => m.Image \in DOMAIN model_image_to_name
                      /\ m.ModelDataUrl # NoneVal =>
                            m.ModelDataUrl \in DOMAIN model_uri_to_name

C8_Witness ==
    \E g, h \in Scans :
        /\ g < h
        /\ generators[g].pc = "groups"
        /\ generators[h].pc = "models"
        /\ history[g].interfered
        /\ Cardinality(Records(g, "endpoint")) = 2
        /\ Cardinality(Records(g, "model")) = 2
        /\ Cardinality(Records(g, "group")) = 1
        /\ Cardinality(DOMAIN model_image_to_name) = 2

\* The model with the greatest ARN among the given ones.
GreatestArn(ms) == CHOOSE m \in ms : \A o \in ms : ~StrLess(m.ModelArn, o.ModelArn)

ByUri(p) == {m \in sagemaker.models : m.ModelDataUrl = p}

ByImage(p) == {m \in sagemaker.models : m.Image = p}

\* The names group resolution may give a group when every path maps to the
\* model with the greatest ARN among those that share it.
LastWriters(arn) ==
    {GreatestArn(ByUri(p)).ModelName :
        p \in {q \in Get(lineage.group_model_uris, arn, {}) : ByUri(q) # {}}}
    \cup
    {GreatestArn(ByImage(p)).ModelName :
        p \in {q \in Get(lineage.group_model_images, arn, {}) : ByImage(q) # {}}}

\* The tables map every primary URI and image of the listing to the model
\* with the greatest ARN among those that share it.
LastWriterTables(t) ==
    \A p \in Paths :
        /\ ByUri(p) # {} =>
              /\ p \in DOMAIN t.uri
              /\ t.uri[p] = GreatestArn(ByUri(p)).ModelName
        /\ ByImage(p) # {} =>
              /\ p \in DOMAIN t.image
              /\ t.image[p] = GreatestArn(ByImage(p)).ModelName

\* Each member of each group record of scan g is such a model.
LastWriterGroups(g) ==
    \A k \in Records(g, "group") :
        \A i \in DOMAIN Rec(g, k).models :
            Rec(g, k).models[i].name \in
                LastWriters(get_group_details(Rec(g, k).id).ModelPackageGroupArn)

\* C9: when a scan has processed the last model of its listing, a URI (an
\* image) that is the primary URI (image) of listed models maps to the name
\* of the one with the greatest ARN; and the groups of the scan get, for a
\* shared path, that model only.
C9_LastWriterWins ==
    \A g \in Scans :
        /\ history[g].after_models # <<>> => LastWriterTables(history[g].after_models[1])
        /\ LastWriterGroups(g)

\* What remains of it on the shared tables: the tables are right when each
\* scan ends its model pass, and the groups of the undisturbed scans are.
UndisturbedLastWriterWins ==
    \A g \in Scans :
        /\ history[g].after_models # <<>> => LastWriterTables(history[g].after_models[1])
        /\ Undisturbed(g) => LastWriterGroups(g)

\* C10: as long as a scan has not run its first statement, none of the three
\* tables it will use holds an entry.
C10_TablesFreshAtScanStart ==
    \A g \in Scans :
        generators[g].pc = "start" =>
            /\ generators[g].endpoint_arn_to_name = EmptyDict
            /\ model_uri_to_name = EmptyDict
            /\ model_image_to_name = EmptyDict

====
